---- MODULE Spec2Model ----
(***************************************************************************)
(* FleetSpeed (pysrc/process.py, pysrc/main.py): validation of AIS lines,  *)
(* the sliding window of validated messages (strip_data) and the ranking   *)
(* of vessels by speed (rank_by_speed).                                    *)
(*                                                                         *)
(* Time.  created_at and now are values of time_ns(): integer nanoseconds. *)
(* They are written here as offsets from an instant Epoch0 that is a       *)
(* multiple of 2 * Ulp nanoseconds and lies, like every present-day value  *)
(* of time_ns(), between 2^60 and 2^61.  In that range a float64 holds     *)
(* only the multiples of Ulp = 2^8 nanoseconds, so converting Epoch0 + x   *)
(* to float gives Epoch0 + ToFloat(x).                                     *)
(***************************************************************************)
EXTENDS Integers, Sequences, FiniteSets, TLC

VARIABLES
    pc,                    \* position of the call under study
    data,                  \* list[VesselDataDict]: the window (main.py `data`)
    time_to_live_secs,     \* strip_data argument
    num_messages_to_keep,  \* strip_data argument
    now,                   \* the value time_ns() returns
    stripped,              \* what strip_data returned
    ranked,                \* what the latest rank_by_speed call returned
    prevRanked,            \* what the rank_by_speed call before it returned
    line,                  \* the input line handed to validate_extract_vessel_data
    validated,             \* what validate_extract_vessel_data returned
    stream,                \* get_bw_stream: "open", "line" (a line is ready),
                           \* "ended", "failed"; "none" outside the driver
    start_time,            \* main_single_batch: start_time
    table,                 \* the rows last handed to live.update
    numEmitted,            \* how many times live.update was called in the loop
    arrived,               \* every validated message so far, in arrival order
    numLines,              \* how many lines the stream has yielded
    full_df,               \* add_batch_to_df argument
    batch,                 \* add_batch_to_df argument
    num_batches,           \* add_batch_to_df argument
    out_df,                \* what add_batch_to_df returned
    batch_interval_secs,   \* batch_stream argument
    next_batch_time,       \* batch_stream: next_batch_time
    yielded                \* the batches batch_stream has yielded, in order

\* The state of main_single_batch beyond the window and the clock.
driverVars == << stream, start_time, table, numEmitted, arrived, numLines >>

\* The arguments and the result of add_batch_to_df; batch is also the
\* list batch_stream fills, next_batch_time and yielded are batch_stream's.
batchVars == << full_df, batch, num_batches, out_df, batch_interval_secs,
               next_batch_time, yielded >>

vars == << pc, data, time_to_live_secs, num_messages_to_keep, now, stripped,
           ranked, prevRanked, line, validated, driverVars, batchVars >>

---------------------------------------------------------------------------
(* Bounds of the model *)

MaxLen == 3       \* longest window drawn
MaxTick == 4      \* clock readings drawn: 0, Step, ..., MaxTick * Step
Step == 100       \* nanoseconds between two clock readings drawn
MaxTtl == 1       \* largest time_to_live_secs drawn
MaxKeep == 3      \* largest num_messages_to_keep drawn
MaxSpeed == 1     \* largest speedOverGround drawn
MaxLines == 3     \* most lines get_bw_stream yields
MaxBatch == 2     \* largest batch_number drawn
MaxSlack == 1     \* mmsi strings drawn: MmsiLen - MaxSlack .. MmsiLen + MaxSlack characters

(* Program constants *)

NsPerSec == 1000000000   \* the factor 1e9 of process.py:159
Ulp == 256               \* float64 spacing of time_ns() values (2^60 .. 2^61)
MmsiLen == 9             \* min_length=9, max_length=9 of process.py:23
UPDATE_INTERVAL_SECONDS == 1    \* main.py:24
NUM_VESSELS_DISPLAYED == 10     \* main.py:25

---------------------------------------------------------------------------
(* Python values *)

\* A function's return value: a list, or None.
Ret(l) == [none |-> FALSE, list |-> l]

None == [none |-> TRUE, list |-> << >>]

\* data[i] for a Python index i (negative: from the end); 1-based position.
PyIndex(l, i) == IF i < 0 THEN Len(l) + i + 1 ELSE i + 1

\* data[i:] for a Python index i.
PySliceFrom(l, i) ==
    LET first == IF i < 0 THEN (IF Len(l) + i < 0 THEN 1 ELSE Len(l) + i + 1)
                 ELSE i + 1
    IN  SubSeq(l, first, Len(l))

\* float(x) of an integer clock value x >= 0: the nearest multiple of Ulp,
\* a tie going to the even multiple (IEEE 754 round-half-to-even).
ToFloat(x) ==
    LET q == x \div Ulp
        r == x % Ulp
    IN  IF 2 * r < Ulp THEN q * Ulp
        ELSE IF 2 * r > Ulp THEN (q + 1) * Ulp
        ELSE IF q % 2 = 0 THEN q * Ulp
        ELSE (q + 1) * Ulp

---------------------------------------------------------------------------
(* VesselDataModel and validate_extract_vessel_data *)

(* A line is modelled by what the JSON parser makes of it:                 *)
(*   json             "object" when the line is a JSON object, "invalid"   *)
(*                    when it is not JSON or not an object;                *)
(*   mmsi, speedOverGround   a JSON value [type, str, num]: type is        *)
(*                    "str" (characters in str), "int" or "float" (an      *)
(*                    integral number in num), "null" or "missing";        *)
(*   msgtime          [type, second, microsecond]: type "iso" is a string  *)
(*                    that is an ISO 8601 date-time, "str" another string, *)
(*                    "missing" an absent field;                           *)
(*   extra            whether the object has fields the model does not     *)
(*                    declare.                                             *)
(* A string is a sequence of one-character strings.                        *)

DigitChars == << "0", "1", "2", "3", "4", "5", "6", "7", "8", "9" >>

Digits == { DigitChars[i] : i \in 1..10 }

\* str(n) of a Python int: its decimal digits, "-" first when negative.
RECURSIVE NatToStr(_)
NatToStr(n) ==
    IF n < 10 THEN << DigitChars[n + 1] >>
    ELSE Append(NatToStr(n \div 10), DigitChars[(n % 10) + 1])

IntToStr(n) == IF n < 0 THEN << "-" >> \o NatToStr(-n) ELSE NatToStr(n)

\* cast_mmsi (mode="before"): str(val) of whatever the JSON value is.
cast_mmsi(val) ==
    CASE val.type = "str"   -> val.str
      [] val.type = "int"   -> IntToStr(val.num)
      [] val.type = "float" -> IntToStr(val.num) \o << ".", "0" >>
      [] OTHER              -> << "N", "o", "n", "e" >>

\* The constraint without its max_length.
MmsiConstr_no_max(s) ==
    /\ Len(s) >= MmsiLen
    /\ Len(s) >= 1
    /\ \A i \in 1..Len(s) : s[i] \in Digits

\* constr(min_length=9, max_length=9, pattern=r"^\d+$")
MmsiConstr(s) ==
    /\ Len(s) >= MmsiLen
    /\ Len(s) <= MmsiLen
    /\ Len(s) >= 1
    /\ \A i \in 1..Len(s) : s[i] \in Digits

\* confloat(ge=0.0) on the field value: a JSON number that is >= 0.
SpeedConstr(val) == val.type \in {"int", "float"} /\ val.num >= 0

\* msgtime: datetime -- the string must parse as a date-time.
DatetimeParses(val) == val.type = "iso"

\* The date-time left as parsed.
truncate_ms_keep(dt) == [second |-> dt.second, microsecond |-> dt.microsecond]

\* truncate_ms (mode="after"): val.replace(microsecond=0)
truncate_ms(dt) == [second |-> dt.second, microsecond |-> 0]

\* What validate_extract_vessel_data returns when it returns None.
NoVessel ==
    [ none |-> TRUE, mmsi |-> << >>, speedOverGround |-> 0,
      msgtime |-> [second |-> 0, microsecond |-> 0], created_at |-> 0 ]

\* VesselDataModel.model_validate_json(line) raises ValidationError:
\* the line is not a JSON object, a declared field is missing, or a
\* field fails its validators.  Undeclared fields are ignored.
RaisesValidationError(l) ==
    \/ l.json # "object"
    \/ l.mmsi.type = "missing"
    \/ ~MmsiConstr(cast_mmsi(l.mmsi))
    \/ l.speedOverGround.type = "missing"
    \/ ~SpeedConstr(l.speedOverGround)
    \/ l.msgtime.type = "missing"
    \/ ~DatetimeParses(l.msgtime)

\* validate_extract_vessel_data(line), time_ns() returning t.
validate_extract_vessel_data(l, t) ==
    IF RaisesValidationError(l) THEN NoVessel
    ELSE [ none |-> FALSE,
           mmsi |-> cast_mmsi(l.mmsi),
           speedOverGround |-> l.speedOverGround.num,
           msgtime |-> truncate_ms(l.msgtime),
           created_at |-> t ]

---------------------------------------------------------------------------
(* strip_data *)

\* time_cutoff = now - time_to_live_secs * 1e9: a float subtraction, so
\* now is converted to float first; the product and the difference are exact.
time_cutoff(ttl, t) == ToFloat(t) - ttl * NsPerSec

\* Position of the first entry with created_at > time_cutoff (0: none).
FirstRecent_strict(l, cutoff) ==
    LET hits == { n \in 1..Len(l) : l[n].created_at > cutoff }
    IN  IF hits = {} THEN 0
        ELSE CHOOSE n \in hits : \A m \in hits : n <= m

\* for n, entry in enumerate(data): if entry["created_at"] >= time_cutoff:
\* the position of the first such entry (0: the loop ends without one).
FirstRecent(l, cutoff) ==
    LET hits == { n \in 1..Len(l) : l[n].created_at >= cutoff }
    IN  IF hits = {} THEN 0
        ELSE CHOOSE n \in hits : \A m \in hits : n <= m

\* strip_data without its cases 1 and 2: the age cutoff alone.
strip_data_ttl_only(l, ttl, keep, t) ==
    LET cutoff == time_cutoff(ttl, t)
    IN  IF FirstRecent(l, cutoff) = 0 THEN Ret(<< >>)
        ELSE Ret(SubSeq(l, FirstRecent(l, cutoff), Len(l)))

\* strip_data with a case 3 that keeps every entry not older than the
\* cutoff, wherever it stands in the list.
strip_data_filter(l, ttl, keep, t) ==
    LET cutoff == time_cutoff(ttl, t)
    IN  IF Len(l) <= keep THEN Ret(l)
        ELSE IF l[PyIndex(l, -keep)].created_at < cutoff
             THEN Ret(PySliceFrom(l, -keep))
        ELSE Ret(SelectSeq(l, LAMBDA e : e.created_at >= cutoff))

strip_data(l, ttl, keep, t) ==
    LET cutoff == time_cutoff(ttl, t)
    IN  IF Len(l) <= keep THEN Ret(l)
        ELSE IF l[PyIndex(l, -keep)].created_at < cutoff
             THEN Ret(PySliceFrom(l, -keep))
        ELSE IF FirstRecent(l, cutoff) = 0 THEN None
        ELSE Ret(SubSeq(l, FirstRecent(l, cutoff), Len(l)))

---------------------------------------------------------------------------
(* rank_by_speed *)

\* The smallest speed among the rows of the frame with that mmsi.
MaxOver_min(df, id) ==
    LET speeds == { df[n].speedOverGround : n \in { m \in 1..Len(df) : df[m].mmsi = id } }
    IN  CHOOSE v \in speeds : \A w \in speeds : v <= w

\* pl.col("speedOverGround").max().over("mmsi"): the largest speed among
\* the rows of the frame with that mmsi.
MaxOver(df, id) ==
    LET speeds == { df[n].speedOverGround : n \in { m \in 1..Len(df) : df[m].mmsi = id } }
    IN  CHOOSE v \in speeds : \A w \in speeds : v >= w

\* df.select(max-over-mmsi of speedOverGround, "mmsi", "msgtime"): one row
\* per row of the frame, the row's own mmsi and msgtime kept.
Select(df) ==
    [ n \in 1..Len(df) |->
        [ speedOverGround |-> MaxOver(df, df[n].mmsi),
          mmsi |-> df[n].mmsi,
          msgtime |-> df[n].msgtime ] ]

\* .unique(): the distinct rows.  maintain_order is not set, so the order
\* of the rows that come out is not specified: a set.
Unique(rows) == { rows[n] : n \in 1..Len(rows) }

\* The rows of a set, in every order.
Orderings(S) ==
    { s \in [1..Cardinality(S) -> S] :
        \A i, j \in 1..Cardinality(S) : i # j => s[i] # s[j] }

\* Ordered by speed, slowest first.
SortedAscending(s) ==
    \A i, j \in 1..Len(s) : i < j => s[i].speedOverGround <= s[j].speedOverGround

\* .sort("speedOverGround", descending=True)
SortedDescending(s) ==
    \A i, j \in 1..Len(s) : i < j => s[i].speedOverGround >= s[j].speedOverGround

\* The frames rank_by_speed may return: the distinct rows sorted by speed,
\* rows of equal speed in any order.
rank_by_speed(df) ==
    { s \in Orderings(Unique(Select(df))) : SortedDescending(s) }

---------------------------------------------------------------------------
(* Clock readings drawn, in nanoseconds from Epoch0 *)

Ticks == { i * Step : i \in 0..MaxTick }

---------------------------------------------------------------------------
(* Values of the variables a specification does not use *)

NoneInt == [none |-> TRUE, val |-> 0]

DriverUnused ==
    /\ stream = "none"
    /\ start_time = 0
    /\ table = << >>
    /\ numEmitted = 0
    /\ arrived = << >>
    /\ numLines = 0

BatchUnused ==
    /\ full_df = << >>
    /\ batch = << >>
    /\ num_batches = NoneInt
    /\ out_df = << >>
    /\ batch_interval_secs = 0
    /\ next_batch_time = 0
    /\ yielded = << >>

---------------------------------------------------------------------------
(* Specification SpecValidate: validate_extract_vessel_data on a drawn line *)

JNull == [type |-> "null", str |-> << >>, num |-> 0]

JMissing == [type |-> "missing", str |-> << >>, num |-> 0]

JStr(s) == [type |-> "str", str |-> s, num |-> 0]

JInt(n) == [type |-> "int", str |-> << >>, num |-> n]

JFloat(n) == [type |-> "float", str |-> << >>, num |-> n]

\* No line read yet.
NoLine ==
    [ json |-> "invalid", mmsi |-> JMissing, speedOverGround |-> JMissing,
      msgtime |-> [type |-> "missing", second |-> 0, microsecond |-> 0],
      extra |-> FALSE ]

\* The first n characters of 123456789012...
DigitStr(n) == [ i \in 1..n |-> DigitChars[(i % 10) + 1] ]

\* s with character c at position p (p = 0: s itself).
WithChar(s, p, c) == [ i \in 1..Len(s) |-> IF i = p THEN c ELSE s[i] ]

OtherChars == { "a", "-", ".", " " }

MmsiStrings ==
    { WithChar(DigitStr(n), p, c) :
        n \in (MmsiLen - MaxSlack)..(MmsiLen + MaxSlack),
        p \in 0..(MmsiLen + MaxSlack),
        c \in OtherChars }

MmsiInts ==
    { 0, 99999999, 100000000, 123456789, 999999999, 1000000000,
      -12345678, -123456789 }

MmsiValues ==
    { JStr(s) : s \in MmsiStrings } \cup { JInt(n) : n \in MmsiInts }
        \cup { JFloat(1234567), JFloat(123456789), JNull, JMissing }

SpeedValues ==
    { JInt(v) : v \in (-1)..MaxSpeed } \cup { JFloat(v) : v \in (-1)..MaxSpeed }
        \cup { JStr(<< "a" >>), JNull, JMissing }

MsgtimeValues ==
    { [type |-> "iso", second |-> 10, microsecond |-> 0],
      [type |-> "iso", second |-> 10, microsecond |-> 123456],
      [type |-> "str", second |-> 0, microsecond |-> 0],
      [type |-> "missing", second |-> 0, microsecond |-> 0] }

Lines ==
    [ json : {"object", "invalid"}, mmsi : MmsiValues,
      speedOverGround : SpeedValues, msgtime : MsgtimeValues,
      extra : BOOLEAN ]

InitValidate ==
    /\ pc = "validate"
    /\ line \in Lines
    /\ now \in Ticks
    /\ validated = NoVessel
    /\ data = << >>
    /\ time_to_live_secs = 0
    /\ num_messages_to_keep = 0
    /\ stripped = None
    /\ ranked = << >>
    /\ prevRanked = << >>
    /\ DriverUnused
    /\ BatchUnused

ValidateExtractVesselData ==
    /\ pc = "validate"
    /\ validated' = validate_extract_vessel_data(line, now)
    /\ pc' = "validated"
    /\ UNCHANGED << data, time_to_live_secs, num_messages_to_keep, now,
                    stripped, ranked, prevRanked, line, driverVars, batchVars >>

NextValidate == ValidateExtractVesselData

SpecValidate == InitValidate /\ [][NextValidate]_vars

---------------------------------------------------------------------------
(* Specification SpecEvict: strip_data applied to drawn arguments *)

\* Windows of the eviction study: record n carries its position as mmsi,
\* which tells records with equal created_at apart.
EvictLists ==
    UNION { { [n \in 1..len |-> [mmsi |-> n, created_at |-> f[n]]] :
                f \in [1..len -> Ticks] } : len \in 0..MaxLen }

InitEvict ==
    /\ pc = "strip"
    /\ data \in EvictLists
    /\ time_to_live_secs \in 0..MaxTtl
    /\ num_messages_to_keep \in 0..MaxKeep
    /\ now \in { time_to_live_secs * NsPerSec + d : d \in Ticks }
    /\ stripped = None
    /\ ranked = << >>
    /\ prevRanked = << >>
    /\ line = NoLine
    /\ validated = NoVessel
    /\ DriverUnused
    /\ BatchUnused

StripData ==
    /\ pc = "strip"
    /\ stripped' = strip_data(data, time_to_live_secs, num_messages_to_keep, now)
    /\ pc' = "stripped"
    /\ UNCHANGED << data, time_to_live_secs, num_messages_to_keep, now,
                    ranked, prevRanked, line, validated, driverVars, batchVars >>

NextEvict == StripData

SpecEvict == InitEvict /\ [][NextEvict]_vars

---------------------------------------------------------------------------
(* Specification SpecRank: rank_by_speed called on a drawn window *)

Mmsis == { <<"2","5","7","0","0","0","0","0","1">>,
           <<"2","5","7","0","0","0","0","0","2">> }

\* msgtime values: datetimes already truncated to whole seconds.
MsgTimes == { [second |-> 10, microsecond |-> 0],
              [second |-> 11, microsecond |-> 0] }

RankRows ==
    [ mmsi : Mmsis, speedOverGround : 0..MaxSpeed, msgtime : MsgTimes,
      created_at : {0} ]

RankFrames == UNION { [1..len -> RankRows] : len \in 0..MaxLen }

InitRank ==
    /\ pc = "rank"
    /\ data \in RankFrames
    /\ time_to_live_secs = 0
    /\ num_messages_to_keep = 0
    /\ now = 0
    /\ stripped = None
    /\ ranked = << >>
    /\ prevRanked = << >>
    /\ line = NoLine
    /\ validated = NoVessel
    /\ DriverUnused
    /\ BatchUnused

\* rank_by_speed(df) is called, and called once more on the same window.
RankBySpeed ==
    /\ pc \in {"rank", "ranked"}
    /\ \E out \in rank_by_speed(data) : ranked' = out
    /\ prevRanked' = ranked
    /\ pc' = IF pc = "rank" THEN "ranked" ELSE "reranked"
    /\ UNCHANGED << data, time_to_live_secs, num_messages_to_keep, now,
                    stripped, line, validated, driverVars, batchVars >>

NextRank == RankBySpeed

SpecRank == InitRank /\ [][NextRank]_vars

---------------------------------------------------------------------------
(* main_single_batch over validate_stream over get_bw_stream *)

\* Nothing is skipped.
validate_stream_skips_nothing(v) == FALSE

\* validate_stream: "if vessel_data:" - a record is yielded, None is not.
validate_stream_skips(v) == v.none

\* The dictionary validate_stream yields.
VesselDataDict(v) ==
    [ mmsi |-> v.mmsi, speedOverGround |-> v.speedOverGround,
      msgtime |-> v.msgtime, created_at |-> v.created_at ]

\* The message put in front.
ListPrepend(l, x) == << x >> \o l

\* data.append(ais_msg)
ListAppend(l, x) == Append(l, x)

\* time.time() - start_time > UPDATE_INTERVAL_SECONDS, the clock in ns.
IntervalElapsed(t, start) == t - start > UPDATE_INTERVAL_SECONDS * NsPerSec

\* .head(n): the first n rows.
DfHead(s, n) == SubSeq(s, 1, IF Len(s) < n THEN Len(s) ELSE n)

\* The list as strip_data would leave it.
RankedWindow_stripped(l, ttl, keep, t) == strip_data(l, ttl, keep, t).list

\* The list main_single_batch converts to a dataframe and ranks when the
\* interval has elapsed: data as it is after the append, strip_data being
\* called after live.update.
RankedWindow(l, ttl, keep, t) == l

\* The tables live.update may be given.
TopTables(l, ttl, keep, t) ==
    { DfHead(s, NUM_VESSELS_DISPLAYED) :
        s \in rank_by_speed(RankedWindow(l, ttl, keep, t)) }

\* The end of the stream taken for an exception.
AfterStreamEnd_raised == "raised"

\* The async for loop ends when the stream is exhausted: main_single_batch
\* returns.
AfterStreamEnd == "stopped"

\* The exception taken for the end of the stream.
AfterStreamFailure_stopped == "stopped"

\* An exception raised inside get_bw_stream is caught nowhere: it leaves
\* main_single_batch and asyncio.run.
AfterStreamFailure == "raised"

---------------------------------------------------------------------------
(* Specification SpecDriver: main_single_batch fed by a drawn stream *)

Iso(sec, micro) == [type |-> "iso", second |-> sec, microsecond |-> micro]

DriverLine(id, speed, time) ==
    [ json |-> "object", mmsi |-> id, speedOverGround |-> speed,
      msgtime |-> time, extra |-> TRUE ]

\* The lines the stream may yield: a report of each of two vessels, a
\* report whose mmsi is too short, and a line that is not JSON.
DriverLines ==
    { DriverLine(JStr(DigitStr(MmsiLen)), JInt(0), Iso(10, 123456)),
      DriverLine(JInt(999999999), JFloat(1), Iso(11, 0)),
      DriverLine(JStr(DigitStr(MmsiLen - 1)), JInt(1), Iso(10, 0)),
      NoLine }

\* DATA_TIME_TO_LIVE_SECONDS and NUM_MESSAGES_TO_KEEP of main.py are module
\* constants, 10 and 1000; a run of the model draws smaller values.
DriverTtls == {0, 1}

DriverKeeps == {0, 1}

\* The clock readings of a run: a step and an interval apart.
DriverClock ==
    { i * UPDATE_INTERVAL_SECONDS * NsPerSec + d * Step :
        i \in {0, 1, 2}, d \in {0, 1} }

InitDriver ==
    /\ pc = "streaming"
    /\ stream = "open"
    /\ data = << >>
    /\ now = 0
    /\ start_time = 0
    /\ time_to_live_secs \in DriverTtls
    /\ num_messages_to_keep \in DriverKeeps
    /\ table = << >>
    /\ numEmitted = 0
    /\ arrived = << >>
    /\ numLines = 0
    /\ stripped = Ret(<< >>)
    /\ ranked = << >>
    /\ prevRanked = << >>
    /\ line = NoLine
    /\ validated = NoVessel
    /\ BatchUnused

\* The clock advances.
TimePasses ==
    /\ pc = "streaming"
    /\ \E t \in DriverClock :
           /\ t > now
           /\ now' = t
    /\ UNCHANGED << pc, data, time_to_live_secs, num_messages_to_keep,
                    stripped, ranked, prevRanked, line, validated,
                    driverVars, batchVars >>

\* get_bw_stream yields its next line.
Deliver ==
    /\ pc = "streaming" /\ stream = "open"
    /\ numLines < MaxLines
    /\ line' \in DriverLines
    /\ stream' = "line"
    /\ numLines' = numLines + 1
    /\ UNCHANGED << pc, data, time_to_live_secs, num_messages_to_keep, now,
                    stripped, ranked, prevRanked, validated, start_time,
                    table, numEmitted, arrived, batchVars >>

\* The response body ends.
EndOfStream ==
    /\ pc = "streaming" /\ stream = "open"
    /\ stream' = "ended"
    /\ UNCHANGED << pc, data, time_to_live_secs, num_messages_to_keep, now,
                    stripped, ranked, prevRanked, line, validated, start_time,
                    table, numEmitted, arrived, numLines, batchVars >>

\* The connection fails: aiohttp raises inside get_bw_stream.
Failure ==
    /\ pc = "streaming" /\ stream = "open"
    /\ stream' = "failed"
    /\ UNCHANGED << pc, data, time_to_live_secs, num_messages_to_keep, now,
                    stripped, ranked, prevRanked, line, validated, start_time,
                    table, numEmitted, arrived, numLines, batchVars >>

\* One iteration of the async for loop of main_single_batch: validate_stream
\* takes the line, validates it and skips it or yields the record; the loop
\* body appends the record and, the interval having elapsed, ranks, updates
\* the table, resets start_time and strips data.  strip_data returning None
\* leaves data None: the next append raises AttributeError.
HandleLine ==
    /\ pc = "streaming" /\ stream = "line"
    /\ stream' = "open"
    /\ validated' = validate_extract_vessel_data(line, now)
    /\ IF validate_stream_skips(validated')
       THEN UNCHANGED << pc, data, start_time, table, numEmitted, arrived,
                         stripped >>
       ELSE IF stripped.none
       THEN /\ pc' = "raised"
            /\ UNCHANGED << data, start_time, table, numEmitted, arrived,
                            stripped >>
       ELSE LET ais_msg == VesselDataDict(validated')
                appended == ListAppend(data, ais_msg)
            IN  /\ arrived' = Append(arrived, ais_msg)
                /\ pc' = pc
                /\ IF IntervalElapsed(now, start_time)
                   THEN /\ table' \in TopTables(appended, time_to_live_secs,
                                                num_messages_to_keep, now)
                        /\ numEmitted' = numEmitted + 1
                        /\ start_time' = now
                        /\ stripped' = strip_data(appended, time_to_live_secs,
                                                  num_messages_to_keep, now)
                        /\ data' = stripped'.list
                   ELSE /\ data' = appended
                        /\ UNCHANGED << start_time, table, numEmitted,
                                        stripped >>
    /\ UNCHANGED << time_to_live_secs, num_messages_to_keep, now, ranked,
                    prevRanked, line, numLines, batchVars >>

\* The async for loop sees the end of the stream.
HandleEnd ==
    /\ pc = "streaming" /\ stream = "ended"
    /\ pc' = AfterStreamEnd
    /\ UNCHANGED << data, time_to_live_secs, num_messages_to_keep, now,
                    stripped, ranked, prevRanked, line, validated,
                    driverVars, batchVars >>

\* The async for loop receives the exception of the stream.
HandleFailure ==
    /\ pc = "streaming" /\ stream = "failed"
    /\ pc' = AfterStreamFailure
    /\ UNCHANGED << data, time_to_live_secs, num_messages_to_keep, now,
                    stripped, ranked, prevRanked, line, validated,
                    driverVars, batchVars >>

NextDriver ==
    \/ TimePasses
    \/ Deliver
    \/ EndOfStream
    \/ Failure
    \/ HandleLine
    \/ HandleEnd
    \/ HandleFailure

\* The event loop resumes main_single_batch whenever the stream has
\* something for it; nothing obliges the stream to yield.
SpecDriver ==
    /\ InitDriver
    /\ [][NextDriver]_vars
    /\ WF_vars(HandleLine)
    /\ WF_vars(HandleEnd)
    /\ WF_vars(HandleFailure)

---------------------------------------------------------------------------
(* add_batch_to_df *)

\* An empty column taken to have maximum 0.
ColumnMax_zero(rows) ==
    IF Len(rows) = 0 THEN [none |-> FALSE, val |-> 0]
    ELSE [ none |-> FALSE,
           val |-> CHOOSE b \in { rows[n].batch_number : n \in 1..Len(rows) } :
                       \A m \in 1..Len(rows) : rows[m].batch_number <= b ]

\* batch.select("batch_number").max().item(): the largest batch_number of
\* the frame, None for a frame without rows.
ColumnMax(rows) ==
    IF Len(rows) = 0 THEN NoneInt
    ELSE [ none |-> FALSE,
           val |-> CHOOSE b \in { rows[n].batch_number : n \in 1..Len(rows) } :
                       \A m \in 1..Len(rows) : rows[m].batch_number <= b ]

\* The row kept when its batch_number is the bound itself, too.
KeepsRow_from(b, max_batch_number, n) == b >= max_batch_number - n

\* pl.col("batch_number") > max_batch_number - num_batches
KeepsRow(b, max_batch_number, n) == b > max_batch_number - n

\* df.filter(...): the rows that pass, in their order.
DfFilter(rows, max_batch_number, n) ==
    SelectSeq(rows, LAMBDA r : KeepsRow(r.batch_number, max_batch_number, n))

\* add_batch_to_df(batch, full_df, num_batches)
add_batch_to_df(b, full, n) ==
    LET concat == full \o b
    IN  IF n.none THEN concat
        ELSE IF ColumnMax(b).none THEN concat
        ELSE DfFilter(concat, ColumnMax(b).val, n.val)

---------------------------------------------------------------------------
(* Specification SpecBatch: add_batch_to_df called on drawn frames *)

\* Rows are told apart by mmsi: n for the n-th row of full_df, and
\* MaxLen + n for the n-th row of the batch.
FullFrames ==
    UNION { { [n \in 1..len |-> [mmsi |-> n, batch_number |-> f[n]]] :
                f \in [1..len -> 0..MaxBatch] } : len \in 0..MaxLen }

\* The frames convert_batch_to_dataframe makes: every row carries the
\* number of the batch; no row, one row or two rows.
BatchFrames ==
    { [n \in 1..len |-> [mmsi |-> MaxLen + n, batch_number |-> cur]] :
        len \in {0, 1, 2}, cur \in 0..MaxBatch }

NumBatches ==
    { NoneInt } \cup { [none |-> FALSE, val |-> n] : n \in 0..(MaxBatch + 1) }

InitBatch ==
    /\ pc = "add_batch"
    /\ full_df \in FullFrames
    /\ batch \in BatchFrames
    /\ num_batches \in NumBatches
    /\ out_df = << >>
    /\ batch_interval_secs = 0
    /\ next_batch_time = 0
    /\ yielded = << >>
    /\ data = << >>
    /\ time_to_live_secs = 0
    /\ num_messages_to_keep = 0
    /\ now = 0
    /\ stripped = None
    /\ ranked = << >>
    /\ prevRanked = << >>
    /\ line = NoLine
    /\ validated = NoVessel
    /\ DriverUnused

AddBatchToDf ==
    /\ pc = "add_batch"
    /\ out_df' = add_batch_to_df(batch, full_df, num_batches)
    /\ pc' = "batch_added"
    /\ UNCHANGED << data, time_to_live_secs, num_messages_to_keep, now,
                    stripped, ranked, prevRanked, line, validated,
                    driverVars, full_df, batch, num_batches,
                    batch_interval_secs, next_batch_time, yielded >>

NextBatch == AddBatchToDf

SpecBatch == InitBatch /\ [][NextBatch]_vars

---------------------------------------------------------------------------
(* batch_stream *)

\* (curr_time := time()) > next_batch_time, the clock in ns.
BatchDue(t, next) == t > next

\* time() + batch_interval_secs, the clock in ns.
NextBatchTime(t, secs) == t + secs * NsPerSec

---------------------------------------------------------------------------
(* Specification SpecBatchStream: batch_stream fed by validate_stream *)

\* The messages validate_stream may yield at clock reading t.
Messages(t) ==
    { VesselDataDict(validate_extract_vessel_data(l, t)) :
        l \in { dl \in DriverLines : ~RaisesValidationError(dl) } }

\* batch_interval_secs: the default, and no interval at all.
BatchIntervals == {0, 1}

\* The clock readings of a run: a step and an interval apart.
BatchClock ==
    { i * NsPerSec + d * Step : i \in {0, 1}, d \in {0, 1, 2} }

InitBatchStream ==
    /\ pc = "batching"
    /\ stream = "open"
    /\ now = 0
    /\ batch_interval_secs \in BatchIntervals
    /\ next_batch_time = NextBatchTime(0, batch_interval_secs)
    /\ batch = << >>
    /\ yielded = << >>
    /\ arrived = << >>
    /\ numLines = 0
    /\ data = << >>
    /\ time_to_live_secs = 0
    /\ num_messages_to_keep = 0
    /\ stripped = None
    /\ ranked = << >>
    /\ prevRanked = << >>
    /\ line = NoLine
    /\ validated = NoVessel
    /\ start_time = 0
    /\ table = << >>
    /\ numEmitted = 0
    /\ full_df = << >>
    /\ num_batches = NoneInt
    /\ out_df = << >>

\* The clock advances.
BatchTimePasses ==
    /\ pc = "batching"
    /\ \E t \in BatchClock :
           /\ t > now
           /\ now' = t
    /\ UNCHANGED << pc, data, time_to_live_secs, num_messages_to_keep,
                    stripped, ranked, prevRanked, line, validated,
                    driverVars, batchVars >>

\* One iteration of the async for loop of batch_stream: the generator
\* yields a message, the message is appended to batch and, when the time
\* has come, batch is yielded and a new one begun.
BatchStreamStep ==
    /\ pc = "batching" /\ stream = "open"
    /\ numLines < MaxLines
    /\ \E ais_msg \in Messages(now) :
           LET appended == ListAppend(batch, ais_msg)
           IN  /\ arrived' = Append(arrived, ais_msg)
               /\ IF BatchDue(now, next_batch_time)
                  THEN /\ yielded' = Append(yielded, appended)
                       /\ batch' = << >>
                       /\ next_batch_time' =
                              NextBatchTime(now, batch_interval_secs)
                  ELSE /\ batch' = appended
                       /\ UNCHANGED << yielded, next_batch_time >>
    /\ numLines' = numLines + 1
    /\ UNCHANGED << pc, data, time_to_live_secs, num_messages_to_keep, now,
                    stripped, ranked, prevRanked, line, validated, stream,
                    start_time, table, numEmitted, full_df, num_batches,
                    out_df, batch_interval_secs >>

\* The generator is exhausted: the async for loop ends and batch_stream
\* returns; nothing follows the loop.
BatchStreamEnd ==
    /\ pc = "batching" /\ stream = "open"
    /\ stream' = "ended"
    /\ pc' = "finished"
    /\ UNCHANGED << data, time_to_live_secs, num_messages_to_keep, now,
                    stripped, ranked, prevRanked, line, validated,
                    start_time, table, numEmitted, arrived, numLines,
                    batchVars >>

NextBatchStream ==
    \/ BatchTimePasses
    \/ BatchStreamStep
    \/ BatchStreamEnd

SpecBatchStream == InitBatchStream /\ [][NextBatchStream]_vars

---------------------------------------------------------------------------
(* Specification Spec: each function of process.py applied to drawn inputs *)

Init == InitValidate \/ InitEvict \/ InitRank

Next == ValidateExtractVesselData \/ StripData \/ RankBySpeed

Spec == Init /\ [][Next]_vars

---------------------------------------------------------------------------
(* Properties of strip_data, under SpecEvict *)

Min(a, b) == IF a <= b THEN a ELSE b

\* The window is ordered by created_at (arrival order).
Ordered(l) == \A i, j \in 1..Len(l) : i <= j => l[i].created_at <= l[j].created_at

\* now - timeToLive, as the exact integer.
ExactCutoff == now - time_to_live_secs * NsPerSec

\* Record n of the window is in what strip_data returned.
Retained(n) == \E m \in 1..Len(stripped.list) : stripped.list[m] = data[n]

\* The most recent `keep` records of the window.
MostRecent(l, keep) == SubSeq(l, Len(l) - Min(keep, Len(l)) + 1, Len(l))

\* C1: strip_data returns a list no longer than the window and no shorter
\* than min(num_messages_to_keep, window size); a window of at most
\* num_messages_to_keep records is returned unchanged, whatever its ages.
C1_EvictionMonotonic ==
    pc = "stripped" =>
        /\ ~stripped.none
        /\ Len(stripped.list) <= Len(data)
        /\ Len(stripped.list) >= Min(num_messages_to_keep, Len(data))
        /\ (Len(data) <= num_messages_to_keep => stripped.list = data)

\* C1 witness: a window above the floor whose oldest record is past the
\* time to live is cut down.
C1_Witness ==
    /\ pc = "stripped"
    /\ num_messages_to_keep >= 1
    /\ Len(data) > num_messages_to_keep
    /\ data[1].created_at < ExactCutoff
    /\ Len(stripped.list) < Len(data)

\* C2 (as claimed): on an ordered window a record is retained iff it is
\* within the time to live or among the num_messages_to_keep most recent.
C2_RetainedIffRecentOrLatest ==
    (pc = "stripped" /\ Ordered(data)) =>
        \A n \in 1..Len(data) :
            Retained(n) <=>
                \/ data[n].created_at >= ExactCutoff
                \/ n > Len(data) - num_messages_to_keep

\* C3 (as claimed): with more than num_messages_to_keep >= 1 records and
\* the record at position length - num_messages_to_keep older than
\* now - timeToLive, exactly the most recent num_messages_to_keep records
\* are kept, in their order.
C3_Branch2KeepsExactlyFloor ==
    ( /\ pc = "stripped"
      /\ Ordered(data)
      /\ num_messages_to_keep >= 1
      /\ Len(data) > num_messages_to_keep
      /\ data[Len(data) - num_messages_to_keep + 1].created_at < ExactCutoff )
    => stripped = Ret(MostRecent(data, num_messages_to_keep))

\* The precondition of branch 3 as the claim states it.
Branch3Case ==
    /\ pc = "stripped"
    /\ Ordered(data)
    /\ num_messages_to_keep >= 1
    /\ Len(data) > num_messages_to_keep
    /\ data[Len(data) - num_messages_to_keep + 1].created_at >= ExactCutoff

\* C4 (as claimed): in branch 3 strictly more than num_messages_to_keep
\* records are retained.
C4_Branch3StrictlyMore ==
    Branch3Case => (~stripped.none /\ Len(stripped.list) > num_messages_to_keep)

\* C4 (amended): in branch 3 at least num_messages_to_keep records are
\* retained.
C4_Branch3AtLeastFloor ==
    Branch3Case => (~stripped.none /\ Len(stripped.list) >= num_messages_to_keep)

\* C4 witness: branch 3 with an older record cut off and exactly
\* num_messages_to_keep records left.
C4_Witness ==
    /\ Branch3Case
    /\ data[1].created_at < time_cutoff(time_to_live_secs, now)
    /\ Len(stripped.list) = num_messages_to_keep

---------------------------------------------------------------------------
(* Properties of rank_by_speed, under SpecRank *)

\* rank_by_speed has returned.
Ranked == pc \in {"ranked", "reranked"}

\* The rows of the window that belong to vessel id.
RowsOf(id) == { n \in 1..Len(data) : data[n].mmsi = id }

VesselIds == { data[n].mmsi : n \in 1..Len(data) }

\* C5 (as claimed): the ranking holds exactly one entry per distinct mmsi
\* of the window.
C5_OneEntryPerVessel ==
    Ranked =>
        \A id \in VesselIds :
            Cardinality({ k \in 1..Len(ranked) : ranked[k].mmsi = id }) = 1

\* C6 (as claimed): every entry's msgtime is the msgtime of a record of
\* that mmsi whose speed is the entry's speed.
C6_TimestampOfBestReport ==
    Ranked =>
        \A k \in 1..Len(ranked) :
            \E n \in RowsOf(ranked[k].mmsi) :
                /\ data[n].speedOverGround = ranked[k].speedOverGround
                /\ data[n].msgtime = ranked[k].msgtime

\* C7: every entry's speed is the maximum speed over the window's records
\* of that mmsi: no record of the vessel is faster, and one is that fast.
C7_BestSpeedIsMaximum ==
    Ranked =>
        \A k \in 1..Len(ranked) :
            /\ \A n \in RowsOf(ranked[k].mmsi) :
                    data[n].speedOverGround <= ranked[k].speedOverGround
            /\ \E n \in RowsOf(ranked[k].mmsi) :
                    data[n].speedOverGround = ranked[k].speedOverGround

\* C7 witness: a ranked vessel with reports of different speeds.
C7_Witness ==
    /\ Ranked
    /\ \E k \in 1..Len(ranked) :
          \E n \in RowsOf(ranked[k].mmsi) :
              data[n].speedOverGround < ranked[k].speedOverGround

\* C8: the ranking is ordered by non-increasing speed: of two adjacent
\* entries the earlier is at least as fast as the later.
C8_NonIncreasingSpeed ==
    Ranked =>
        \A k \in 1..(Len(ranked) - 1) :
            ranked[k].speedOverGround >= ranked[k + 1].speedOverGround

\* C8 witness: a ranking of two vessels of different best speeds, the
\* slower of which reported first.
C8_Witness ==
    /\ Ranked
    /\ Len(ranked) >= 2
    /\ ranked[1].speedOverGround > ranked[Len(ranked)].speedOverGround
    /\ ranked[1].mmsi # ranked[Len(ranked)].mmsi
    /\ data[1].mmsi = ranked[Len(ranked)].mmsi

\* C9 (as claimed): two rank_by_speed calls on the same unmodified window
\* return the same entries in the same order.
C9_RankIdempotent ==
    pc = "reranked" => ranked = prevRanked

---------------------------------------------------------------------------
(* Properties of validate_extract_vessel_data, under SpecValidate *)

\* The identifier, a string or an integer, is exactly nine decimal digits:
\* a string of nine characters 0..9, an integer from 100000000 to 999999999.
IdIsNineDigits(val) ==
    \/ /\ val.type = "str"
       /\ Len(val.str) = 9
       /\ \A i \in 1..Len(val.str) : val.str[i] \in Digits
    \/ /\ val.type = "int"
       /\ val.num >= 100000000
       /\ val.num <= 999999999

\* C10: a line is accepted iff it parses as a record, its identifier is
\* exactly nine digits, its speed is a number that is not negative and its
\* timestamp parses; extra fields play no part.
C10_AcceptedIffValid ==
    pc = "validated" =>
        ( ~validated.none <=>
            /\ line.json = "object"
            /\ IdIsNineDigits(line.mmsi)
            /\ line.speedOverGround.type \in {"int", "float"}
            /\ ~(line.speedOverGround.num < 0)
            /\ line.msgtime.type = "iso" )

\* C10 witness: a line with an integer identifier of nine digits, speed
\* zero and extra fields has been accepted.
C10_Witness ==
    /\ pc = "validated"
    /\ ~validated.none
    /\ line.mmsi.type = "int"
    /\ line.speedOverGround.num = 0
    /\ line.extra

\* The number a string of decimal digits writes.
RECURSIVE DigitsToNat(_)
DigitsToNat(s) ==
    IF Len(s) = 0 THEN 0
    ELSE 10 * DigitsToNat(SubSeq(s, 1, Len(s) - 1))
         + (CHOOSE d \in 0..9 : DigitChars[d + 1] = s[Len(s)])

\* C11: an accepted line yields a record whose mmsi is the decimal string
\* of the identifier (the string itself, or the digits that write the
\* integer), whose speed is the line's speed, whose msgtime is the line's
\* timestamp with the sub-second part zero, and whose created_at is the
\* clock reading of the validation.
C11_AcceptedRecordNormalised ==
    (pc = "validated" /\ ~validated.none) =>
        /\ line.mmsi.type = "str" => validated.mmsi = line.mmsi.str
        /\ line.mmsi.type = "int" =>
               /\ \A i \in 1..Len(validated.mmsi) : validated.mmsi[i] \in Digits
               /\ DigitsToNat(validated.mmsi) = line.mmsi.num
        /\ line.mmsi.type \in {"str", "int"}
        /\ validated.speedOverGround = line.speedOverGround.num
        /\ validated.msgtime.second = line.msgtime.second
        /\ validated.msgtime.microsecond = 0
        /\ validated.created_at = now

\* C11 witness: an accepted line with an integer identifier, a timestamp
\* with microseconds and a clock reading other than zero.
C11_Witness ==
    /\ pc = "validated"
    /\ ~validated.none
    /\ line.mmsi.type = "int"
    /\ line.msgtime.microsecond # 0
    /\ validated.created_at > 0

---------------------------------------------------------------------------
(* Properties of main_single_batch, under SpecDriver *)

\* A step of HandleLine: the line the stream held is taken.
LineHandled == pc = "streaming" /\ stream = "line" /\ stream' = "open"

\* A step in which live.update is called.
Emits == numEmitted' = numEmitted + 1

RECURSIVE IsSubsequence(_, _)
\* s is t with some of its elements left out.
IsSubsequence(s, t) ==
    IF s = << >> THEN TRUE
    ELSE IF t = << >> THEN FALSE
    ELSE IF Head(s) = Head(t) THEN IsSubsequence(Tail(s), Tail(t))
    ELSE IsSubsequence(s, Tail(t))

\* C12: handling a line never takes the driver out of Streaming; when the
\* line is rejected the window, the table and the number of emissions are
\* unchanged and the driver waits for the next line.
C12_RejectionNeverHalts ==
    [][ LineHandled =>
          /\ pc' = "streaming"
          /\ validated'.none =>
                 /\ data' = data
                 /\ table' = table
                 /\ numEmitted' = numEmitted
                 /\ arrived' = arrived ]_vars

\* A record is in the window, the line after it was rejected, and the
\* stream has yielded the line after that.
C12_Witness ==
    /\ pc = "streaming" /\ stream = "line"
    /\ validated.none /\ numLines >= 2 /\ Len(data) >= 1

\* C13: the window is the accepted records in arrival order with some left
\* out, none moved and none repeated, and its created_at values do not
\* decrease.
C13_ArrivalOrder ==
    pc \in {"streaming", "stopped", "raised"} =>
        /\ IsSubsequence(data, arrived)
        /\ Ordered(data)

\* A window of two records of different created_at, after an eviction.
C13_Witness ==
    /\ pc = "streaming" /\ Len(data) >= 2 /\ Len(arrived) > Len(data)
    /\ data[1].created_at < data[2].created_at

\* The window right after the append of the record just validated.
Appended == Append(data, VesselDataDict(validated'))

\* The tables a window may be ranked into.
Snapshots(l) == { DfHead(s, NUM_VESSELS_DISPLAYED) : s \in rank_by_speed(l) }

\* C14 as stated: in every step that emits, eviction comes first, so the
\* table emitted is a ranking of the window the eviction leaves.
C14_EvictBeforeRank ==
    [][ Emits => table' \in Snapshots(data') ]_vars

\* C14: in every step that emits, the table is a ranking of the window as
\* it is after the append and before eviction, and the window left is what
\* strip_data makes of that same list.
C14_RankBeforeEvict ==
    [][ Emits =>
          /\ table' \in Snapshots(Appended)
          /\ data' = strip_data(Appended, time_to_live_secs,
                                num_messages_to_keep, now).list ]_vars

\* Right after an emission the table shows a vessel of which the window
\* holds no record any more.
C14_Witness ==
    /\ pc = "streaming" /\ numEmitted >= 1 /\ start_time = now
    /\ Len(arrived) = Len(stripped.list) + 1
    /\ \E n \in 1..Len(table) :
           \A m \in 1..Len(data) : data[m].mmsi # table[n].mmsi

\* C15: whenever the driver is streaming and the interval has elapsed, a
\* further table is emitted later on, or the driver leaves Streaming.
C15_EmitsOnCadence ==
    \A n \in 0..MaxLines :
        [](( /\ pc = "streaming"
             /\ IntervalElapsed(now, start_time)
             /\ numEmitted = n )
              => <>(numEmitted > n \/ pc # "streaming"))

\* C16: the end of the stream takes the driver to Stopped and nowhere else,
\* nothing is emitted once the stream has ended, and a stopped driver does
\* nothing more.
C16_StopsCleanly ==
    /\ [][ stream = "ended" =>
              /\ pc' \in {pc, "stopped"}
              /\ numEmitted' = numEmitted
              /\ table' = table ]_vars
    /\ [][ pc = "stopped" => UNCHANGED << pc, data, driverVars >> ]_vars
    /\ (stream = "ended") ~> (pc = "stopped")

\* The stream has ended after an emission and the driver has stopped.
C16_Witness == pc = "stopped" /\ stream = "ended" /\ numEmitted >= 1

\* C17: a failure of the stream ends the run raised, which a clean end
\* never does; after the failure the stream is not opened again and
\* nothing is emitted.
C17_FailurePropagates ==
    /\ [](pc = "raised" <=> (stream = "failed" /\ pc # "streaming"))
    /\ [](pc = "stopped" => stream = "ended")
    /\ [][ stream = "failed" =>
              /\ stream' = "failed"
              /\ numLines' = numLines
              /\ numEmitted' = numEmitted
              /\ table' = table ]_vars
    /\ (stream = "failed") ~> (pc = "raised")

\* The stream has failed after an emission and the exception has left the
\* driver.
C17_Witness == pc = "raised" /\ stream = "failed" /\ numEmitted >= 1

\* C18: under a configuration with time_to_live_secs <= 0 or
\* num_messages_to_keep <= 0 no line is consumed and no eviction runs.
C18_BadConfigRejected ==
    (time_to_live_secs <= 0 \/ num_messages_to_keep <= 0) =>
        ~(pc \in {"streaming", "stopped", "raised"} /\ numEmitted >= 1)

---------------------------------------------------------------------------
(* Properties of add_batch_to_df, under SpecBatch *)

\* The batch_number of the incoming batch.
CurrentBatchNumber == batch[1].batch_number

\* C19 as stated: for a batch with rows and a number of batches to keep,
\* the result is the rows of full_df and of the batch, in that order, whose
\* batch_number is the batch's number minus num_batches or newer.
C19_KeepsFromBound ==
    (pc = "batch_added" /\ Len(batch) > 0 /\ ~num_batches.none) =>
        out_df = SelectSeq(full_df \o batch,
                     LAMBDA r : r.batch_number >=
                                    CurrentBatchNumber - num_batches.val)

\* C19: for a batch with rows and a number of batches to keep, the result
\* is the rows of full_df and of the batch, in that order, whose
\* batch_number is newer than the batch's number minus num_batches; with
\* num_batches at least 1 every row of the batch is among them.
C19_KeepsNewerThanBound ==
    (pc = "batch_added" /\ Len(batch) > 0 /\ ~num_batches.none) =>
        /\ out_df = SelectSeq(full_df \o batch,
                        LAMBDA r : r.batch_number >
                                       CurrentBatchNumber - num_batches.val)
        /\ num_batches.val >= 1 =>
               \A n \in 1..Len(batch) :
                   \E m \in 1..Len(out_df) : out_df[m] = batch[n]

\* full_df holds a row exactly num_batches older than the batch and a
\* newer one; the first is dropped, the second kept.
C19_Witness ==
    /\ pc = "batch_added" /\ Len(batch) > 0 /\ ~num_batches.none
    /\ num_batches.val >= 1
    /\ \E n, m \in 1..Len(full_df) :
           /\ full_df[n].batch_number = CurrentBatchNumber - num_batches.val
           /\ full_df[m].batch_number > CurrentBatchNumber - num_batches.val
           /\ \A k \in 1..Len(out_df) : out_df[k] # full_df[n]
           /\ \E k \in 1..Len(out_df) : out_df[k] = full_df[m]

\* C20: for a batch without rows the result is full_df, row for row.
C20_EmptyBatchChangesNothing ==
    (pc = "batch_added" /\ Len(batch) = 0) => out_df = full_df

\* An empty batch was added to a window of several batches with
\* num_batches 0.
C20_Witness ==
    /\ pc = "batch_added" /\ Len(batch) = 0
    /\ ~num_batches.none /\ num_batches.val = 0
    /\ Len(full_df) >= 2
    /\ \E n, m \in 1..Len(full_df) :
           full_df[n].batch_number # full_df[m].batch_number

---------------------------------------------------------------------------
(* Further properties of strip_data, under SpecEvict *)

\* l is what is left of whole when some first entries are cut off.
IsSuffix(l, whole) ==
    \E n \in 1..(Len(whole) + 1) : l = SubSeq(whole, n, Len(whole))

\* C22: with num_messages_to_keep at least 1, for every list drawn, in
\* created_at order or not, strip_data returns a list, never None, and the
\* list is the input with some first entries cut off.
C22_ReturnsSuffix ==
    (pc = "stripped" /\ num_messages_to_keep >= 1) =>
        /\ ~stripped.none
        /\ IsSuffix(stripped.list, data)

\* Case 3 has cut entries off a list that is not in created_at order.
C22_Witness ==
    /\ pc = "stripped" /\ num_messages_to_keep >= 1
    /\ ~Ordered(data)
    /\ Len(data) > num_messages_to_keep
    /\ Len(stripped.list) > num_messages_to_keep
    /\ Len(stripped.list) < Len(data)

---------------------------------------------------------------------------
(* Properties of batch_stream, under SpecBatchStream *)

RECURSIVE Flatten(_)
\* The batches of a sequence of batches, one after the other.
Flatten(bs) == IF bs = << >> THEN << >> ELSE Head(bs) \o Flatten(Tail(bs))

\* C21: the batches yielded, one after the other, are the messages
\* consumed in arrival order, each once: all of them once batch_stream
\* has finished, and all but those of the batch being filled before.
C21_EveryMessageYielded ==
    /\ pc = "batching" => Flatten(yielded) \o batch = arrived
    /\ pc = "finished" => Flatten(yielded) = arrived

=============================================================================
